---- MODULE Spec2Model ----
(***************************************************************************)
(* Health-status evaluation pipeline of backend/ai_analysis.py             *)
(* (VitalSignsAnalyzer): aggregation, advisory model call, reconciliation  *)
(* of the model's text and the rule-based fallback.                        *)
(*                                                                         *)
(* Numbers are fixed-point hundredths: 36.8 is 3680, a confidence of 0.6   *)
(* is 60, the trend tolerance 0.1 is 10.                                   *)
(***************************************************************************)
EXTENDS Integers, Sequences, FiniteSets, TLC

VARIABLES
    thresholds,      \* self.thresholds of the global analyzer
    pc,              \* position of the analyze_vital_signs coroutine
    vital_signs,     \* argument of the call
    patient_profile, \* argument of the call
    response,        \* what _execute_gemini_analysis returned or raised
    result,          \* what analyze_vital_signs returned or raised
    path,            \* phases the call went through, in order
    model_calls,     \* invocations of model.generate_content by the call
    waited,          \* time units spent suspended on run_in_executor
    unit_pc,         \* which function a caller has called directly, and how often
    unit_input,      \* the reading sequence that caller holds and passes
    unit_profile,    \* the patient profile that caller passes
    unit_first,      \* what the first direct call returned
    unit_second,     \* what the second direct call on the same input returned
    clock,           \* datetime.utcnow() and the source of uuid4()
    calls,           \* the frames of the concurrent analyze_vital_signs calls
    configured,      \* GEMINI_API_KEY was set when the module was loaded
    invocations,     \* invocations of model.generate_content by any call
    error_log,       \* records written by logger.error in ai_analysis
    server,          \* the application: loading, serving or closed
    simulation_active,  \* the global flag of server.py
    simulation_task, \* the global task handle of server.py, or None
    tasks,           \* every task made by asyncio.create_task(simulation_loop())
    db,              \* the Firestore client firebase_config caches, or None
    reported,        \* the "simulation" field of the last /health response
    event,           \* the handler or task that ran last
    initialized,     \* MongoDBFallback.initialized
    patient_profiles,   \* the documents of the patient_profiles collection
    savers           \* the frames of the save_profile calls

\* the variables of the direct calls and of the concurrent calls
unit_vars == <<unit_pc, unit_input, unit_profile, unit_first, unit_second, clock>>
conc_vars == <<calls, configured, invocations, error_log>>

\* the variables of the server's simulation and of the MongoDB fallback
server_vars ==
    <<server, simulation_active, simulation_task, tasks, db, reported, event>>
store_vars == <<initialized, patient_profiles, savers>>
other_vars == <<server_vars, store_vars>>

vars == <<thresholds, pc, vital_signs, patient_profile, response,
          result, path, model_calls, waited, unit_vars, conc_vars, other_vars>>

----------------------------------------------------------------------------
(* Bounds of the model *)

\* longest reading sequence enumerated exhaustively over CoreReadings
MaxLen == 2

\* the bounded wait the design asks of the advisory call, in time units
AdvisoryWaitBound == 2

\* how far past the bound the clock of a suspended call is followed
MaxOverrun == 1

----------------------------------------------------------------------------
(* Values *)

\* a JSON/Python number, None, or a key that is not in the dict
Num(n) == [kind |-> "num", n |-> n]
NoneVal == [kind |-> "null", n |-> 0]
MissingVal == [kind |-> "missing", n |-> 0]

\* dict keys that are absent or None, for string-valued fields
Absent == "<absent>"
Null == "<null>"

Reading(st, v) == [sensor_type |-> st, value |-> v]

\* models.SensorType
SensorType ==
    {"heart_rate", "blood_pressure", "oxygen_saturation", "temperature",
     "gsr", "posture", "pressure"}

\* models.AlertLevel
AlertLevel == {"normal", "warning", "critical", "emergency"}

\* the values the AIAnalysisResponse.health_status comment lists
HealthStatus == {"normal", "attention", "concerning", "critical"}

\* VitalSignsAnalyzer.__init__: the Threshold Table, bands as <<low, high>>
ThresholdTable ==
    [heart_rate |->
        [normal |-> <<6000, 10000>>, warning |-> <<5000, 12000>>,
         critical |-> <<4000, 15000>>],
     blood_pressure |->
        [normal |-> <<9000, 14000>>, warning |-> <<8000, 16000>>,
         critical |-> <<7000, 18000>>],
     oxygen_saturation |->
        [normal |-> <<9500, 10000>>, warning |-> <<9000, 9400>>,
         critical |-> <<0, 8900>>],
     temperature |->
        [normal |-> <<3600, 3750>>, warning |-> <<3500, 3850>>,
         critical |-> <<3400, 4000>>],
     gsr |->
        [normal |-> <<20000, 80000>>, warning |-> <<10000, 100000>>,
         critical |-> <<5000, 150000>>]]

----------------------------------------------------------------------------
(* models.Alert and models.AIAnalysisResponse *)

\* Alert.ai_analysis: a str of len characters, or None
NoAnalysis == [some |-> FALSE, len |-> 0, ellipsis |-> FALSE]

\* the message of an alert: a text, and the value and band formatted into it
Message(text, v, band) == [text |-> text, value |-> v, band |-> band]

Alert(level, title, message, sensor_type, trigger_value, ai_analysis) ==
    [level |-> level, title |-> title, message |-> message,
     sensor_type |-> sensor_type, trigger_value |-> trigger_value,
     ai_analysis |-> ai_analysis]

AIAnalysisResponse(summary, status, assessed, combined, recs, alerts, score) ==
    [analysis_summary |-> summary, health_status |-> status,
     individual_assessments |-> assessed, combined_assessment |-> combined,
     recommendations |-> recs, alerts_generated |-> alerts,
     confidence_score |-> score]

\* the outcome of a call: a returned value, or an exception
Returned(v) == [raised |-> FALSE, value |-> v]
NoResponse == AIAnalysisResponse("", "", <<>>, "", <<>>, <<>>, 0)
Raised == [raised |-> TRUE, value |-> NoResponse]

\* one entry of individual_assessments: the text of the assessment
Assessment(text, v) == [text |-> text, value |-> v]

----------------------------------------------------------------------------
(* _generate_fallback_analysis: the Rule Evaluator *)

\* vital_signs[-10:]
\* the Rule Evaluator reading the whole list
LastReadings_all(vs) == vs

LastReadings(vs) ==
    IF Len(vs) <= 10 THEN vs ELSE SubSeq(vs, Len(vs) - 10 + 1, Len(vs))

\* reading.get('sensor_type'): None when the key is absent
GetSensorType(reading) ==
    IF reading.sensor_type = Absent THEN Null ELSE reading.sensor_type

\* reading.get('value'): None for a reading without a value
GetValue_none(reading) ==
    IF reading.value.kind = "missing" THEN NoneVal ELSE reading.value

\* reading.get('value', 0)
GetValue(reading) ==
    IF reading.value.kind = "missing" THEN Num(0) ELSE reading.value

\* the band test with its bounds exclusive
InBand_exclusive(band, n) == band[1] < n /\ n < band[2]

\* band[0] <= value <= band[1]
InBand(band, n) == band[1] <= n /\ n <= band[2]

\* sensor_type.replace('_', ' ').title() + " Anomalo"
FallbackTitle(sensor_type) ==
    CASE sensor_type = "heart_rate" -> "Heart Rate Anomalo"
      [] sensor_type = "blood_pressure" -> "Blood Pressure Anomalo"
      [] sensor_type = "oxygen_saturation" -> "Oxygen Saturation Anomalo"
      [] sensor_type = "temperature" -> "Temperature Anomalo"
      [] sensor_type = "gsr" -> "Gsr Anomalo"
      [] OTHER -> "Anomalo"

\* the loop body raising one alert per sensor type at most
FallbackStep_once(th, acc, reading) ==
    LET sensor_type == GetSensorType(reading)
        value == GetValue(reading)
    IN  IF acc.raised \/ sensor_type \notin DOMAIN th
        THEN acc
        ELSE IF value.kind # "num"
        THEN [acc EXCEPT !.raised = TRUE]  \* TypeError: int <= NoneType
        ELSE
        LET t == th[sensor_type]
            normal == InBand(t.normal, value.n)
            level == IF ~InBand(t.warning, value.n)
                     THEN "critical" ELSE "warning"
            alert == Alert(level, FallbackTitle(sensor_type),
                           Message("Valor fora do normal", value, t.normal),
                           sensor_type, value, NoAnalysis)
            text == IF normal THEN "Normal" ELSE "Atencao"
        IN  [alerts |-> IF normal \/ \E i \in DOMAIN acc.alerts :
                                     acc.alerts[i].sensor_type = sensor_type
                        THEN acc.alerts
                        ELSE Append(acc.alerts, alert),
             assessments |->
                [s \in DOMAIN acc.assessments \cup {sensor_type} |->
                    IF s = sensor_type THEN Assessment(text, value)
                    ELSE acc.assessments[s]],
             raised |-> FALSE]

\* the loop body keeping the first assessment of a sensor type
FallbackStep_first(th, acc, reading) ==
    LET sensor_type == GetSensorType(reading)
        value == GetValue(reading)
    IN  IF acc.raised \/ sensor_type \notin DOMAIN th
        THEN acc
        ELSE IF value.kind # "num"
        THEN [acc EXCEPT !.raised = TRUE]  \* TypeError: int <= NoneType
        ELSE
        LET t == th[sensor_type]
            normal == InBand(t.normal, value.n)
            level == IF ~InBand(t.warning, value.n)
                     THEN "critical" ELSE "warning"
            alert == Alert(level, FallbackTitle(sensor_type),
                           Message("Valor fora do normal", value, t.normal),
                           sensor_type, value, NoAnalysis)
            text == IF normal THEN "Normal" ELSE "Atencao"
        IN  [alerts |-> IF normal THEN acc.alerts
                        ELSE Append(acc.alerts, alert),
             assessments |->
                [s \in DOMAIN acc.assessments \cup {sensor_type} |->
                    IF s \in DOMAIN acc.assessments THEN acc.assessments[s]
                    ELSE IF s = sensor_type THEN Assessment(text, value)
                    ELSE acc.assessments[s]],
             raised |-> FALSE]

\* the loop body taking the level from the critical band
FallbackStep_banded(th, acc, reading) ==
    LET sensor_type == GetSensorType(reading)
        value == GetValue(reading)
    IN  IF acc.raised \/ sensor_type \notin DOMAIN th
        THEN acc
        ELSE IF value.kind # "num"
        THEN [acc EXCEPT !.raised = TRUE]  \* TypeError: int <= NoneType
        ELSE
        LET t == th[sensor_type]
            normal == InBand(t.normal, value.n)
            level == IF InBand(t.critical, value.n)
                     THEN "critical" ELSE "warning"
            alert == Alert(level, FallbackTitle(sensor_type),
                           Message("Valor fora do normal", value, t.normal),
                           sensor_type, value, NoAnalysis)
            text == IF normal THEN "Normal" ELSE "Atencao"
        IN  [alerts |-> IF normal THEN acc.alerts
                        ELSE Append(acc.alerts, alert),
             assessments |->
                [s \in DOMAIN acc.assessments \cup {sensor_type} |->
                    IF s = sensor_type THEN Assessment(text, value)
                    ELSE acc.assessments[s]],
             raised |-> FALSE]

\* the body of the loop for one reading; acc is <<alerts, assessments, raised>>
FallbackStep(th, acc, reading) ==
    LET sensor_type == GetSensorType(reading)
        value == GetValue(reading)
    IN  IF acc.raised \/ sensor_type \notin DOMAIN th
        THEN acc
        ELSE IF value.kind # "num"
        THEN [acc EXCEPT !.raised = TRUE]  \* TypeError: int <= NoneType
        ELSE
        LET t == th[sensor_type]
            normal == InBand(t.normal, value.n)
            level == IF ~InBand(t.warning, value.n)
                     THEN "critical" ELSE "warning"
            alert == Alert(level, FallbackTitle(sensor_type),
                           Message("Valor fora do normal", value, t.normal),
                           sensor_type, value, NoAnalysis)
            text == IF normal THEN "Normal" ELSE "Atencao"
        IN  [alerts |-> IF normal THEN acc.alerts
                        ELSE Append(acc.alerts, alert),
             assessments |->
                [s \in DOMAIN acc.assessments \cup {sensor_type} |->
                    IF s = sensor_type THEN Assessment(text, value)
                    ELSE acc.assessments[s]],
             raised |-> FALSE]

RECURSIVE FallbackLoop(_, _, _, _)
FallbackLoop(th, rs, i, acc) ==
    IF i > Len(rs) THEN acc
    ELSE FallbackLoop(th, rs, i + 1, FallbackStep(th, acc, rs[i]))

\* the Rule Evaluator reporting "critical" when an alert is critical
_generate_fallback_analysis_escalating(th, vs) ==
    LET acc == FallbackLoop(th, LastReadings(vs), 1,
                   [alerts |-> <<>>, assessments |-> <<>>, raised |-> FALSE])
    IN  IF acc.raised THEN Raised
        ELSE Returned(AIAnalysisResponse(
                 "Analise baseada em regras de fallback",
                 IF \E i \in DOMAIN acc.alerts : acc.alerts[i].level = "critical"
                 THEN "critical"
                 ELSE IF acc.alerts # <<>> THEN "attention" ELSE "normal",
                 acc.assessments,
                 "Analise realizada por regras automaticas",
                 <<"Monitorar sinais vitais", "Consultar medico se necessario">>,
                 acc.alerts,
                 60))

_generate_fallback_analysis(th, vs) ==
    LET acc == FallbackLoop(th, LastReadings(vs), 1,
                   [alerts |-> <<>>, assessments |-> <<>>, raised |-> FALSE])
    IN  IF acc.raised THEN Raised
        ELSE Returned(AIAnalysisResponse(
                 "Analise baseada em regras de fallback",
                 IF acc.alerts # <<>> THEN "attention" ELSE "normal",
                 acc.assessments,
                 "Analise realizada por regras automaticas",
                 <<"Monitorar sinais vitais", "Consultar medico se necessario">>,
                 acc.alerts,
                 60))

----------------------------------------------------------------------------
(* _prepare_analysis_data: the Reading Aggregator *)

\* reading.get('sensor_type', 'unknown'): a None sensor_type is a key too
GroupKey(reading) ==
    IF reading.sensor_type = Absent THEN "unknown" ELSE reading.sensor_type

RECURSIVE SelectSeq2(_, _)
\* [r for r in vital_signs if GroupKey(r) = key], in order
SelectSeq2(vs, key) ==
    IF vs = <<>> THEN <<>>
    ELSE IF GroupKey(Head(vs)) = key
         THEN <<Head(vs)>> \o SelectSeq2(Tail(vs), key)
         ELSE SelectSeq2(Tail(vs), key)

grouped_data(vs) ==
    [key \in {GroupKey(vs[i]) : i \in DOMAIN vs} |-> SelectSeq2(vs, key)]

\* the values with 0 standing for the value a reading lacks
ValuesOf_defaulted(readings) ==
    [i \in DOMAIN readings |->
        IF readings[i].value.kind = "missing" THEN Num(0)
        ELSE readings[i].value]

RECURSIVE ValuesOf(_)
\* [r['value'] for r in readings if 'value' in r]
ValuesOf(readings) ==
    IF readings = <<>> THEN <<>>
    ELSE IF Head(readings).value.kind = "missing"
         THEN ValuesOf(Tail(readings))
         ELSE <<Head(readings).value>> \o ValuesOf(Tail(readings))

RECURSIVE SumSeq(_)
SumSeq(ns) == IF ns = <<>> THEN 0 ELSE Head(ns) + SumSeq(Tail(ns))

Abs(n) == IF n < 0 THEN 0 - n ELSE n

\* the trend taken from the first value of the whole series
_calculate_trend_whole(values) ==
    IF Len(values) < 2 THEN "stable"
    ELSE LET diff == values[Len(values)] - values[1]
         IN  IF Abs(diff) < 10 THEN "stable"
             ELSE IF diff > 0 THEN "increasing"
             ELSE "decreasing"

\* values are numbers here
_calculate_trend(values) ==
    IF Len(values) < 2 THEN "stable"
    ELSE
    LET recent == IF Len(values) >= 3
                  THEN SubSeq(values, Len(values) - 2, Len(values))
                  ELSE values
    IN  IF Len(recent) < 2 THEN "stable"
        ELSE LET diff == recent[Len(recent)] - recent[1]
             IN  IF Abs(diff) < 10 THEN "stable"
                 ELSE IF diff > 0 THEN "increasing"
                 ELSE "decreasing"

\* the statistics of one sensor type; average is the exact quotient sum / count
SensorStatistics(ns) ==
    [count |-> Len(ns),
     average |-> [sum |-> SumSeq(ns), count |-> Len(ns)],
     min |-> CHOOSE m \in {ns[i] : i \in DOMAIN ns} :
                 \A i \in DOMAIN ns : m <= ns[i],
     max |-> CHOOSE m \in {ns[i] : i \in DOMAIN ns} :
                 \A i \in DOMAIN ns : m >= ns[i],
     latest |-> ns[Len(ns)],
     trend |-> _calculate_trend(ns)]

\* sum(values) raises TypeError when a value is None
StatisticsRaise(vs) ==
    \E i \in DOMAIN vs : vs[i].value.kind = "null"

_prepare_analysis_data(vs, profile) ==
    LET groups == grouped_data(vs)
        valued == {key \in DOMAIN groups : ValuesOf(groups[key]) # <<>>}
    IN  IF StatisticsRaise(vs) THEN Raised
        ELSE Returned(
            [grouped_data |-> groups,
             statistics |->
                [key \in valued |->
                    LET values == ValuesOf(groups[key])
                    IN  SensorStatistics([i \in DOMAIN values |-> values[i].n])],
             patient_profile |-> IF profile = "none" THEN "empty" ELSE profile,
             total_readings |-> Len(vs)])

\* json.dumps(data['patient_profile']) raises TypeError on a datetime field,
\* which a stored PatientProfile has (created_at, updated_at)
_generate_analysis_prompt(data) ==
    IF data.patient_profile = "with_datetime" THEN Raised
    ELSE Returned(data.statistics)

----------------------------------------------------------------------------
(* The advisory text and json.loads *)

\* A JSON value: a string, a number, null, a list of alert objects, a list
\* of strings or an object of strings.
JVal(kind, sval, nval, alist, slist, dict) ==
    [kind |-> kind, sval |-> sval, nval |-> nval, alist |-> alist,
     slist |-> slist, dict |-> dict]
JStr(s) == JVal("str", s, 0, <<>>, <<>>, <<>>)
JNum(n) == JVal("num", "", n, <<>>, <<>>, <<>>)
JNull == JVal("null", "", 0, <<>>, <<>>, <<>>)
JAlerts(l) == JVal("alerts", "", 0, l, <<>>, <<>>)
JStrList(l) == JVal("strlist", "", 0, <<>>, l, <<>>)
JDict(d) == JVal("dict", "", 0, <<>>, <<>>, d)

\* one object of the "alerts" list; a field is a string, Absent or Null
AlertData(level, title, message, sensor_type) ==
    [level |-> level, title |-> title, message |-> message,
     sensor_type |-> sensor_type]

\* The text is a sequence of pieces: the characters "{" and "}", a run of n
\* other characters, or the text of one member ("key": value) of an object.
Brace(c) == [ch |-> c, key |-> "", val |-> JNull]
Junk(n) == [ch |-> "x", key |-> "", val |-> JNum(n)]
Member(k, v) == [ch |-> "m", key |-> k, val |-> v]

\* the text of a member holds braces of its own when it lists alert objects
HasBraces(piece) ==
    piece.ch = "m" /\ piece.val.kind = "alerts" /\ piece.val.alist # <<>>
HasOpen(piece) == piece.ch = "{" \/ HasBraces(piece)
HasClose(piece) == piece.ch = "}" \/ HasBraces(piece)

\* len(text): a member counts for one character
PieceLen(piece) == IF piece.ch = "x" THEN piece.val.nval ELSE 1

RECURSIVE TextLen(_)
TextLen(text) ==
    IF text = <<>> THEN 0 ELSE PieceLen(Head(text)) + TextLen(Tail(text))

\* str.find('{'): the 0-based place of the first piece holding "{", or -1
find_open(text) ==
    IF \E i \in DOMAIN text : HasOpen(text[i])
    THEN (CHOOSE i \in DOMAIN text :
            HasOpen(text[i]) /\ \A j \in 1..(i - 1) : ~HasOpen(text[j])) - 1
    ELSE -1

\* str.rfind('}'): the 0-based place of the last piece holding "}", or -1
rfind_close(text) ==
    IF \E i \in DOMAIN text : HasClose(text[i])
    THEN (CHOOSE i \in DOMAIN text :
            HasClose(text[i])
            /\ \A j \in (i + 1)..Len(text) : ~HasClose(text[j])) - 1
    ELSE -1

\* text[json_start:json_end]
Slice(text, json_start, json_end) == SubSeq(text, json_start + 1, json_end)

\* the dict of an object's members; a repeated key keeps its last value
DictOf(members) ==
    [k \in {members[i].key : i \in DOMAIN members} |->
        LET last == CHOOSE i \in DOMAIN members :
                        /\ members[i].key = k
                        /\ \A j \in (i + 1)..Len(members) : members[j].key # k
        IN  members[last].val]

\* json.loads(json_str), json_str running from the first "{" to the last "}":
\* a dict, or JSONDecodeError.  When the first "{" and the last "}" are those
\* of the only alert object of one member, json_str is that object, which
\* has none of the keys read below.
json_loads(json_str) ==
    LET n == Len(json_str)
        first == json_str[1]
        last == json_str[n]
    IN  IF /\ n >= 2
           /\ first.ch = "{"
           /\ last.ch = "}"
           /\ \A i \in 2..(n - 1) : json_str[i].ch = "m"
        THEN Returned(DictOf(SubSeq(json_str, 2, n - 1)))
        ELSE IF n = 1 /\ HasBraces(first) /\ Len(first.val.alist) = 1
        THEN Returned(<<>>)
        ELSE Raised

\* the lookup giving None for a key the object lacks
Get_unset(ai_data, key, default) ==
    IF key \in DOMAIN ai_data THEN ai_data[key] ELSE JNull

\* ai_data.get(key, default)
Get(ai_data, key, default) ==
    IF key \in DOMAIN ai_data THEN ai_data[key] ELSE default

\* _parse_text_response: the dict built for a text without JSON
_parse_text_response(text_response) ==
    [health_status |-> JStr("attention"),
     analysis_summary |-> JStr("Analise realizada: text[:200]..."),
     individual_assessments |-> JDict(<<>>),
     combined_assessment |-> JStr("Analise baseada em resposta textual"),
     recommendations |->
        JStrList(<<"Consultar medico se sintomas persistirem">>),
     alerts |-> JAlerts(<<>>),
     confidence_score |-> JNum(50)]

----------------------------------------------------------------------------
(* _process_gemini_response: the Response Reconciler *)

\* gemini_response[:500] + "..." if len(gemini_response) > 500
\* else gemini_response
\* the truncation keeping 500 characters and adding nothing
ai_analysis_cut(gemini_response) ==
    LET n == TextLen(gemini_response)
    IN  IF n > 500
        THEN [some |-> TRUE, len |-> 500, ellipsis |-> FALSE]
        ELSE [some |-> TRUE, len |-> n, ellipsis |-> FALSE]

ai_analysis(gemini_response) ==
    LET n == TextLen(gemini_response)
    IN  IF n > 500
        THEN [some |-> TRUE, len |-> 500 + 3, ellipsis |-> TRUE]
        ELSE [some |-> TRUE, len |-> n, ellipsis |-> FALSE]

\* alert_data.get(key, default) of a string field
GetField(field, default) == IF field = Absent THEN default ELSE field

\* Alert(...) of one alert_data raises: AlertLevel(level) is a ValueError
\* for a level outside the enum, and pydantic rejects a title or message
\* that is None and a sensor_type outside SensorType
AlertRaises(alert_data) ==
    \/ GetField(alert_data.level, "warning") \notin AlertLevel
    \/ alert_data.title = Null
    \/ alert_data.message = Null
    \/ alert_data.sensor_type \notin SensorType \cup {Absent, Null}

AIAlert(alert_data, gemini_response) ==
    Alert(GetField(alert_data.level, "warning"),
          GetField(alert_data.title, "Alerta IA"),
          Message(GetField(alert_data.message, "Anomalia detectada"),
                  NoneVal, <<>>),
          IF alert_data.sensor_type = Absent THEN Null
          ELSE alert_data.sensor_type,
          NoneVal,
          ai_analysis(gemini_response))

\* individual_assessments of the parsed object, as the response holds it
AssessmentsOf(dict) ==
    [k \in {dict[i][1] : i \in DOMAIN dict} |->
        LET last == CHOOSE i \in DOMAIN dict :
                        /\ dict[i][1] = k
                        /\ \A j \in (i + 1)..Len(dict) : dict[j][1] # k
        IN  Assessment(dict[last][2], NoneVal)]

\* the try block from the alerts loop on (lines 199-220), for a parsed ai_data
BuildResponse(ai_data, gemini_response) ==
    LET alerts == Get(ai_data, "alerts", JAlerts(<<>>))
        summary == Get(ai_data, "analysis_summary", JStr("Analise realizada"))
        status == Get(ai_data, "health_status", JStr("normal"))
        assessments == Get(ai_data, "individual_assessments", JDict(<<>>))
        combined == Get(ai_data, "combined_assessment",
                        JStr("Sinais vitais analisados"))
        recs == Get(ai_data, "recommendations", JStrList(<<>>))
        confidence == Get(ai_data, "confidence_score", JNum(70))
    IN  IF \/ alerts.kind # "alerts"
           \/ \E i \in DOMAIN alerts.alist : AlertRaises(alerts.alist[i])
           \/ summary.kind # "str"
           \/ status.kind # "str"
           \/ assessments.kind # "dict"
           \/ combined.kind # "str"
           \/ recs.kind # "strlist"
           \/ confidence.kind # "num"
        THEN Raised
        ELSE Returned(AIAnalysisResponse(
                 summary.sval,
                 status.sval,
                 AssessmentsOf(assessments.dict),
                 combined.sval,
                 recs.slist,
                 [i \in DOMAIN alerts.alist |->
                     AIAlert(alerts.alist[i], gemini_response)],
                 confidence.nval))

\* the extraction taking the slice when json_end equals json_start too
ExtractData_ge(gemini_response) ==
    LET json_start == find_open(gemini_response)
        json_end == rfind_close(gemini_response) + 1
    IN  IF json_start # -1 /\ json_end >= json_start
        THEN json_loads(Slice(gemini_response, json_start, json_end))
        ELSE Returned(_parse_text_response(gemini_response))

\* lines 189-197: the dict the response is built from, or JSONDecodeError
ExtractData(gemini_response) ==
    LET json_start == find_open(gemini_response)
        json_end == rfind_close(gemini_response) + 1
    IN  IF json_start # -1 /\ json_end > json_start
        THEN json_loads(Slice(gemini_response, json_start, json_end))
        ELSE Returned(_parse_text_response(gemini_response))

\* TRUE when the try block raises and the except clause takes over
ReconcileRaises(gemini_response) ==
    LET ai_data == ExtractData(gemini_response)
    IN  \/ ai_data.raised
        \/ BuildResponse(ai_data.value, gemini_response).raised

\* the Reconciler answering a JSONDecodeError with the degraded-text parser
_process_gemini_response_degraded(th, gemini_response, vs) ==
    IF ExtractData(gemini_response).raised
    THEN BuildResponse(_parse_text_response(gemini_response), gemini_response)
    ELSE IF ReconcileRaises(gemini_response)
    THEN _generate_fallback_analysis(th, vs)
    ELSE BuildResponse(ExtractData(gemini_response).value, gemini_response)

_process_gemini_response(th, gemini_response, vs) ==
    IF ReconcileRaises(gemini_response)
    THEN _generate_fallback_analysis(th, vs)
    ELSE BuildResponse(ExtractData(gemini_response).value, gemini_response)

----------------------------------------------------------------------------
(* Inputs of a call *)

\* readings enumerated in every order up to MaxLen
CoreReadings ==
    {Reading("heart_rate", Num(7200)),
     Reading("heart_rate", Num(11000)),
     Reading("heart_rate", Num(15000)),
     Reading("temperature", Num(3900)),
     Reading("heart_rate", MissingVal),
     Reading("heart_rate", NoneVal),
     Reading("posture", NoneVal),
     Reading(Absent, Num(7200))}

\* one reading at and next to each edge of the normal and warning bands
BoundaryReadings ==
    {Reading(s, Num(ThresholdTable[s][b][e] + d)) :
        s \in DOMAIN ThresholdTable, b \in {"normal", "warning"},
        e \in {1, 2}, d \in {-1, 0, 1}}
    \cup {Reading("heart_rate", Num(n)) : n \in {10100, 12100}}

SeqsUpTo(S, n) == UNION {[1..k -> S] : k \in 0..n}

\* k in-band readings
Padding(k) == [i \in 1..k |-> Reading("blood_pressure", Num(12000))]

\* hr=150, bp=120, spo2=98, temp=36.8, gsr=400
Scenario ==
    <<Reading("heart_rate", Num(15000)),
      Reading("blood_pressure", Num(12000)),
      Reading("oxygen_saturation", Num(9800)),
      Reading("temperature", Num(3680)),
      Reading("gsr", Num(40000))>>

\* a boundary reading alone, as the oldest of the last 10, and just before them
Inputs ==
    SeqsUpTo(CoreReadings, MaxLen)
    \cup {<<r>> \o Padding(k) : r \in BoundaryReadings, k \in {0, 9, 10}}
    \cup {Scenario}

\* None; a profile of plain fields; a stored profile with its datetime fields
PatientProfiles == {"none", "plain", "with_datetime"}

HeartAlert == AlertData("critical", "Taquicardia", "FC elevada", "heart_rate")

\* texts the advisory model may return
Texts ==
    {<<>>,
     <<Junk(12)>>,
     <<Junk(600)>>,
     <<Brace("{")>>,
     <<Brace("}"), Brace("{")>>,
     <<Brace("{"), Junk(3), Brace("}")>>,
     <<Brace("{"), Brace("}")>>,
     <<Brace("{"), Member("health_status", JStr("normal")), Brace("}"),
       Junk(3), Brace("}")>>,
     <<Junk(8), Brace("{"), Member("health_status", JStr("normal")),
       Member("alerts", JAlerts(<<>>)), Brace("}"), Junk(4)>>,
     <<Brace("{"), Member("health_status", JStr("excellent")), Brace("}")>>,
     <<Brace("{"), Member("health_status", JNull), Brace("}")>>,
     <<Brace("{"), Member("confidence_score", JNum(150)), Brace("}")>>,
     <<Brace("{"), Member("confidence_score", JNum(-20)), Brace("}")>>,
     <<Brace("{"), Member("confidence_score", JNum(85)),
       Member("health_status", JStr("critical")),
       Member("alerts", JAlerts(<<HeartAlert>>)), Brace("}")>>,
     <<Brace("{"), Member("health_status", JStr("concerning")),
       Member("analysis_summary", JStr("Resumo")),
       Member("individual_assessments",
              JDict(<<<<"heart_rate", "FC alta">>>>)),
       Member("combined_assessment", JStr("Combinada")),
       Member("recommendations", JStrList(<<"Repouso">>)),
       Member("alerts",
              JAlerts(<<AlertData(Absent, Absent, Absent, Absent)>>)),
       Brace("}"), Junk(600)>>,
     <<Brace("{"),
       Member("alerts",
              JAlerts(<<AlertData("info", "T", "M", "heart_rate")>>)),
       Brace("}")>>,
     <<Brace("{"), Member("alerts", JNull), Brace("}")>>,
     <<Brace("{"), Member("health_status", JStr("critical")),
       Member("alerts",
              JAlerts(<<AlertData("warning", "T", "M", "glucose")>>)),
       Brace("}")>>,
     <<Member("alerts", JAlerts(<<HeartAlert>>))>>,
     <<Brace("{"), Member("alerts", JAlerts(<<HeartAlert>>)), Brace("}"),
       Junk(497)>>,
     <<Brace("{"), Member("alerts", JAlerts(<<HeartAlert>>)), Brace("}"),
       Junk(498)>>,
     <<Brace("{"), Member("alerts", JAlerts(<<HeartAlert, HeartAlert>>))>>}

----------------------------------------------------------------------------
(* analyze_vital_signs, one action per run between two suspensions *)

NoCall == [status |-> "none", text |-> <<>>]

\* the callers of the concurrent calls
Callers == {1, 2}

\* the frame of a call that has not started
IdleFrame ==
    [pc |-> "idle", vital_signs |-> <<>>, patient_profile |-> "none",
     response |-> NoCall, result |-> Returned(NoResponse),
     invoked |-> FALSE, late |-> FALSE, concurrent |-> FALSE]

MaxTasks == 3
MaxBatches == 2
TaskIds == 1..MaxTasks
None == 0

\* a task that asyncio.create_task has not made yet
NoTask == [state |-> "absent", written |-> 0, cancelled_at |-> 0]

\* server.py is imported: lines 51-52, and db = None of firebase_config
ServerLoading ==
    /\ server = "loading"
    /\ simulation_active = FALSE
    /\ simulation_task = None
    /\ tasks = [t \in TaskIds |-> NoTask]
    /\ db = "none"
    /\ reported = "none"
    /\ event = "import"

MaxSaves == 2
Savers == 1..3

\* a save_profile call that has not started
NoSave == [pc |-> "idle", profile_data |-> "", existing |-> None, saves |-> 0]

\* MongoDBFallback() is constructed and the collection is empty
StoreEmpty ==
    /\ initialized = FALSE
    /\ patient_profiles = <<>>
    /\ savers = [s \in Savers |-> NoSave]

\* no direct call and no concurrent call has been made
OthersIdle ==
    /\ unit_pc = "idle"
    /\ unit_input = <<>>
    /\ unit_profile = "none"
    /\ unit_first = <<>>
    /\ unit_second = <<>>
    /\ clock = 0
    /\ calls = [c \in Callers |-> IdleFrame]
    /\ invocations = 0
    /\ error_log = <<>>
    /\ ServerLoading
    /\ StoreEmpty

\* the analyzer is constructed and analyze_vital_signs has not been called
NotCalled ==
    /\ thresholds = ThresholdTable
    /\ pc = "idle"
    /\ vital_signs = <<>>
    /\ patient_profile = "none"
    /\ response = NoCall
    /\ result = Returned(NoResponse)
    /\ path = <<>>
    /\ model_calls = 0
    /\ waited = 0

Init ==
    /\ OthersIdle
    /\ NotCalled
    /\ configured = TRUE

\* return of analyze_vital_signs with outcome r after the phases p
Finish(r, p) ==
    /\ result' = r
    /\ pc' = IF r.raised THEN "raised" ELSE "done"
    /\ path' = p \o <<IF r.raised THEN "RAISED" ELSE "DONE">>

\* the except clause of analyze_vital_signs (lines 46-48)
ExceptFallback(vs, p) ==
    Finish(_generate_fallback_analysis(thresholds, vs), p \o <<"FALLBACK">>)

\* lines 31-39 up to the suspension in _execute_gemini_analysis
Call(vs, profile) ==
    /\ pc = "idle"
    /\ vital_signs' = vs
    /\ patient_profile' = profile
    /\ LET analysis_data == _prepare_analysis_data(vs, profile)
           raises == \/ analysis_data.raised
                     \/ _generate_analysis_prompt(analysis_data.value).raised
       IN  IF raises
           THEN /\ ExceptFallback(vs, <<"START", "AGGREGATING">>)
                /\ UNCHANGED model_calls
           ELSE /\ pc' = "awaiting"
                /\ path' = <<"START", "AGGREGATING", "ADVISORY_ATTEMPT">>
                /\ model_calls' = model_calls + 1
                /\ UNCHANGED result
    /\ UNCHANGED <<thresholds, response, waited, unit_vars, conc_vars, other_vars>>

\* time passes while model.generate_content runs in the executor thread;
\* the await of line 175 has no timeout
Tick ==
    /\ pc = "awaiting"
    /\ waited < AdvisoryWaitBound + MaxOverrun
    /\ waited' = waited + 1
    /\ UNCHANGED <<thresholds, pc, vital_signs, patient_profile, response,
                   result, path, model_calls, unit_vars, conc_vars, other_vars>>

\* generate_content returned and response.text is text: lines 179, 42-44
ModelReturns(text) ==
    /\ pc = "awaiting"
    /\ response' = [status |-> "text", text |-> text]
    /\ LET analysis_result ==
               _process_gemini_response(thresholds, text, vital_signs)
           p == path \o <<"RECONCILE">>
                     \o IF ReconcileRaises(text) THEN <<"FALLBACK">> ELSE <<>>
       IN  IF analysis_result.raised
           THEN ExceptFallback(vital_signs, p)
           ELSE Finish(analysis_result, p)
    /\ UNCHANGED <<thresholds, vital_signs, patient_profile, model_calls,
                   waited, unit_vars, conc_vars, other_vars>>

\* generate_content or response.text raised: lines 180-182, 46-48
ModelRaises ==
    /\ pc = "awaiting"
    /\ response' = [status |-> "raised", text |-> <<>>]
    /\ ExceptFallback(vital_signs, path)
    /\ UNCHANGED <<thresholds, vital_signs, patient_profile, model_calls,
                   waited, unit_vars, conc_vars, other_vars>>

Next ==
    \/ \E vs \in Inputs, profile \in PatientProfiles : Call(vs, profile)
    \/ Tick
    \/ \E text \in Texts : ModelReturns(text)
    \/ ModelRaises

Spec == Init /\ [][Next]_vars

----------------------------------------------------------------------------
(* Direct calls of _calculate_trend, _prepare_analysis_data and
   _generate_fallback_analysis, the last two made twice on the same list *)

call_vars ==
    <<pc, vital_signs, patient_profile, response, result, path, model_calls,
      waited>>

MaxPrefix == 1
MaxClock == 2

\* series of temperatures and heart rates, in hundredths; the differences
\* of 0.09, 0.1 and 0.11 are those of 36.5, 36.59, 36.6 and 36.61
TrendValues == {3650, 3659, 3660, 3661, 7000, 7200, 7500}
\* every series of up to 3 values, and every series of 3 values after up
\* to MaxPrefix older values
Series ==
    SeqsUpTo(TrendValues, 3) \cup
    {older \o recent : older \in SeqsUpTo({3650, 7500}, MaxPrefix),
                       recent \in [1..3 -> TrendValues]}

\* the list of four heart rates and a temperature passed directly
MixedReadings ==
    <<Reading("heart_rate", Num(7000)), Reading("heart_rate", MissingVal),
      Reading("heart_rate", Num(7200)), Reading("temperature", MissingVal),
      Reading("heart_rate", Num(7500))>>

\* k readings of heart rate 150
Alarming(k) == [i \in 1..k |-> Reading("heart_rate", Num(15000))]

\* reading lists passed directly: those of a call, the mixed list, a reading
\* without a value of each configured sensor type, and more than 10
\* out-of-band readings
UnitReadings ==
    Inputs
    \cup {MixedReadings}
    \cup {<<Reading(s, MissingVal)>> : s \in DOMAIN ThresholdTable}
    \cup {Alarming(11), <<Reading("temperature", Num(3900))>> \o Alarming(10)}

\* line 80: the dict returned carries "timestamp": datetime.utcnow()
WithTimestamp(out, now) ==
    IF out.raised THEN out
    ELSE Returned(
        [f \in DOMAIN out.value \cup {"timestamp"} |->
            IF f = "timestamp" THEN now ELSE out.value[f]])

\* the response with the id and the timestamp its default factories give
\* it and each of its alerts: a uuid4 is told apart by the call drawing it
Issued(out, call, now) == [out |-> out, id |-> call, timestamp |-> now]

\* the list with 0 written into every reading that lacks a value
AggregatedReadings_defaulted(vs) ==
    [i \in DOMAIN vs |->
        IF vs[i].value.kind = "missing"
        THEN [vs[i] EXCEPT !.value = Num(0)] ELSE vs[i]]

\* vital_signs after _prepare_analysis_data: the readings are only read
\* (reading.get, 'value' in r, r['value'])
AggregatedReadings(vs) == vs

\* vital_signs after _generate_fallback_analysis: the slice [-10:] is a
\* copy and the readings are only read (reading.get)
EvaluatedReadings(vs) == vs

\* thresholds whose normal band is widened to the warning band for every
\* sensor type evaluated
ThresholdsAfter_adaptive(th, vs) ==
    [s \in DOMAIN th |->
        IF \E i \in DOMAIN vs : vs[i].sensor_type = s
        THEN [th[s] EXCEPT !.normal = th[s].warning] ELSE th[s]]

\* self.thresholds after _generate_fallback_analysis: it is only read
ThresholdsAfter(th, vs) == th

TrendCall(values) ==
    /\ unit_pc = "idle"
    /\ unit_pc' = "trend"
    /\ unit_input' = values
    /\ unit_first' = _calculate_trend(values)
    /\ UNCHANGED <<thresholds, unit_profile, unit_second, clock, call_vars,
                   conc_vars, other_vars>>

PrepareCall(vs, profile) ==
    /\ unit_pc = "idle"
    /\ unit_pc' = "prepare_once"
    /\ unit_profile' = profile
    /\ unit_first' = WithTimestamp(_prepare_analysis_data(vs, profile), clock)
    /\ unit_input' = AggregatedReadings(vs)
    /\ UNCHANGED <<thresholds, unit_second, clock, call_vars, conc_vars, other_vars>>

PrepareAgain ==
    /\ unit_pc = "prepare_once"
    /\ unit_pc' = "prepare_twice"
    /\ unit_second' =
           WithTimestamp(_prepare_analysis_data(unit_input, unit_profile),
                         clock)
    /\ unit_input' = AggregatedReadings(unit_input)
    /\ UNCHANGED <<thresholds, unit_profile, unit_first, clock, call_vars,
                   conc_vars, other_vars>>

FallbackCall(vs) ==
    /\ unit_pc = "idle"
    /\ unit_pc' = "fallback_once"
    /\ unit_first' = Issued(_generate_fallback_analysis(thresholds, vs), 1, clock)
    /\ thresholds' = ThresholdsAfter(thresholds, vs)
    /\ unit_input' = EvaluatedReadings(vs)
    /\ UNCHANGED <<unit_profile, unit_second, clock, call_vars, conc_vars, other_vars>>

FallbackAgain ==
    /\ unit_pc = "fallback_once"
    /\ unit_pc' = "fallback_twice"
    /\ unit_second' =
           Issued(_generate_fallback_analysis(thresholds, unit_input), 2, clock)
    /\ thresholds' = ThresholdsAfter(thresholds, unit_input)
    /\ unit_input' = EvaluatedReadings(unit_input)
    /\ UNCHANGED <<unit_profile, unit_first, clock, call_vars, conc_vars, other_vars>>

\* time passes between two calls, or does not
Elapse ==
    /\ clock < MaxClock
    /\ clock' = clock + 1
    /\ UNCHANGED <<thresholds, unit_pc, unit_input, unit_profile, unit_first,
                   unit_second, call_vars, conc_vars, other_vars>>

NextUnit ==
    \/ \E values \in Series : TrendCall(values)
    \/ \E vs \in UnitReadings, profile \in PatientProfiles :
           PrepareCall(vs, profile)
    \/ PrepareAgain
    \/ \E vs \in UnitReadings : FallbackCall(vs)
    \/ FallbackAgain
    \/ Elapse

SpecUnit == Init /\ [][NextUnit]_vars

----------------------------------------------------------------------------
(* Properties *)

Ended == pc \in {"done", "raised"}

\* the result came out of the Rule Evaluator
FallbackTaken == \E i \in DOMAIN path : path[i] = "FALLBACK"

\* no "{" of the text comes before a "}" of it
NoBracePair(text) ==
    ~ \E i \in DOMAIN text, j \in DOMAIN text :
        /\ HasOpen(text[i])
        /\ HasClose(text[j])
        /\ (i < j \/ (i = j /\ HasBraces(text[i])))

\* the text has a brace pair and what it encloses is not JSON
MalformedJson(text) == ~NoBracePair(text) /\ ExtractData(text).raised

\* what the Rule Evaluator computes on the readings of the call
RuleEvaluation == _generate_fallback_analysis(thresholds, vital_signs)

\* C1: analyze_vital_signs returns an AIAnalysisResponse for every reading
\* sequence and every outcome of the model call: no call ends with an
\* exception propagated to its caller.
C1_NeverPropagates == pc # "raised"

C3_BoundedWait == pc = "awaiting" => waited <= AdvisoryWaitBound

\* C4: a call that has ended went START, AGGREGATING, ADVISORY_ATTEMPT, then
\* RECONCILE or FALLBACK (or RECONCILE failing over to FALLBACK), then DONE,
\* produced its one assessment and invoked the model at most once.
C4_StateMachine ==
    Ended =>
        /\ pc = "done"
        /\ model_calls <= 1
        /\ path \in
            {<<"START", "AGGREGATING", "ADVISORY_ATTEMPT", "RECONCILE", "DONE">>,
             <<"START", "AGGREGATING", "ADVISORY_ATTEMPT", "FALLBACK", "DONE">>,
             <<"START", "AGGREGATING", "ADVISORY_ATTEMPT", "RECONCILE",
               "FALLBACK", "DONE">>}

\* the readings the Rule Evaluator classifies: those of the last 10 whose
\* sensor type has a Threshold Table entry, a missing value counting as 0
Evaluated ==
    LET rs == LastReadings(vital_signs)
    IN  {[sensor_type |-> rs[i].sensor_type,
          n |-> IF rs[i].value.kind = "num" THEN rs[i].value.n ELSE 0] :
            i \in {k \in DOMAIN rs : rs[k].sensor_type \in DOMAIN thresholds}}

\* the alerts of the result raised by a reading
AlertsFor(r) ==
    LET alerts == result.value.alerts_generated
    IN  {alerts[i] : i \in {k \in DOMAIN alerts :
                               /\ alerts[k].sensor_type = r.sensor_type
                               /\ alerts[k].trigger_value = Num(r.n)}}

\* the call was on the single reading heart_rate n and its result, whose
\* alerts have the levels given, came out of the Rule Evaluator
HeartRateLevels(n, levels) ==
    (/\ pc = "done"
     /\ FallbackTaken
     /\ vital_signs = <<Reading("heart_rate", Num(n))>>)
    => levels = [i \in DOMAIN result.value.alerts_generated |->
                    result.value.alerts_generated[i].level]

\* C5: in a Rule Evaluator result a classified reading has no alert iff its
\* value lies within the normal band, bounds included; otherwise its alert is
\* a warning iff the value lies within the warning band and critical iff it
\* lies outside it.  heart_rate 100 raises nothing, 101 and 120 a warning,
\* 121 a critical alert.
C5_ThresholdClassification ==
    /\ (pc = "done" /\ FallbackTaken) =>
        \A r \in Evaluated :
            LET t == thresholds[r.sensor_type]
                in_normal == t.normal[1] <= r.n /\ r.n <= t.normal[2]
                in_warning == t.warning[1] <= r.n /\ r.n <= t.warning[2]
            IN  /\ AlertsFor(r) = {} <=> in_normal
                /\ \A a \in AlertsFor(r) :
                    /\ a.level \in {"warning", "critical"}
                    /\ a.level = "warning" <=> in_warning
                    /\ a.level = "critical" <=> ~in_warning
    /\ HeartRateLevels(10000, <<>>)
    /\ HeartRateLevels(10100, <<"warning">>)
    /\ HeartRateLevels(12000, <<"warning">>)
    /\ HeartRateLevels(12100, <<"critical">>)

C5_Witness ==
    /\ pc = "done"
    /\ FallbackTaken
    /\ vital_signs = <<Reading("heart_rate", Num(12000))>>
    /\ Len(result.value.alerts_generated) = 1
    /\ result.value.alerts_generated[1].level = "warning"

\* C6: a Rule Evaluator result has health_status "attention" iff it holds an
\* alert and "normal" otherwise, never "critical", and confidence_score 0.6.
\* With the model unavailable, hr=150, bp=120, spo2=98, temp=36.8, gsr=400
\* give "attention" and the single alert critical, heart_rate, 150.
C6_FallbackStatus ==
    (pc = "done" /\ FallbackTaken) =>
        LET r == result.value
        IN  /\ r.health_status = "attention" <=> r.alerts_generated # <<>>
            /\ r.health_status = "normal" <=> r.alerts_generated = <<>>
            /\ r.health_status # "critical"
            /\ r.confidence_score = 60
            /\ (vital_signs = Scenario /\ response.status = "raised") =>
                /\ r.health_status = "attention"
                /\ Len(r.alerts_generated) = 1
                /\ r.alerts_generated[1].level = "critical"
                /\ r.alerts_generated[1].sensor_type = "heart_rate"
                /\ r.alerts_generated[1].trigger_value = Num(15000)

C6_Witness ==
    /\ pc = "done"
    /\ vital_signs = Scenario
    /\ response.status = "raised"
    /\ result.value.health_status = "attention"
    /\ Len(result.value.alerts_generated) = 1
    /\ result.value.alerts_generated[1].level = "critical"

\* the degraded default of the Reconciler
IsDegradedDefault(r) ==
    /\ ~r.raised
    /\ r.value.confidence_score = 50
    /\ r.value.health_status = "attention"
    /\ r.value.individual_assessments = <<>>
    /\ r.value.alerts_generated = <<>>

\* readings the Reconciler is tried on besides those of the call, among
\* them readings the Rule Evaluator alerts on and readings it raises on
OtherReadings == {<<r>> : r \in CoreReadings} \cup {Scenario}

\* C7: for a text without a brace pair _process_gemini_response returns
\* confidence_score 0.5, health_status "attention", no assessments and no
\* alerts, for the readings of the call and for any other readings.
C7_ReconciliationDefaults ==
    (response.status = "text" /\ NoBracePair(response.text)) =>
        /\ pc = "done"
        /\ IsDegradedDefault(result)
        /\ \A vs \in OtherReadings :
            IsDegradedDefault(
                _process_gemini_response(thresholds, response.text, vs))

C7_Witness ==
    /\ pc = "done"
    /\ response.status = "text"
    /\ response.text = <<Junk(12)>>
    /\ vital_signs = Scenario
    /\ IsDegradedDefault(result)

\* the text holds a JSON object, from a "{" of its own to a "}" of its own
HoldsObject(text) ==
    /\ \E i \in DOMAIN text : text[i].ch = "{"
    /\ ~NoBracePair(text)
    /\ ~ExtractData(text).raised

\* C8: when the model call succeeds and its text holds a JSON object that
\* is reconciled, every alert the Rule Evaluator raises on the readings of
\* the call has an alert of the same sensor type in the final assessment.
C8_RuleEvaluatorMerged ==
    (/\ pc = "done"
     /\ response.status = "text"
     /\ HoldsObject(response.text)
     /\ ~FallbackTaken
     /\ ~RuleEvaluation.raised) =>
        \A i \in DOMAIN RuleEvaluation.value.alerts_generated :
            \E j \in DOMAIN result.value.alerts_generated :
                result.value.alerts_generated[j].sensor_type =
                    RuleEvaluation.value.alerts_generated[i].sensor_type

\* C9: every assessment returned has its health_status among normal,
\* attention, concerning and critical.
C9_HealthStatusDomain ==
    pc = "done" => result.value.health_status \in HealthStatus

\* C10: every assessment returned has its confidence_score within [0, 1]:
\* 0.6 from the Rule Evaluator, 0.5 from the degraded text, 0.7 when the
\* parsed object has no such field.
C10_ConfidenceRange ==
    pc = "done" =>
        /\ 0 <= result.value.confidence_score
        /\ result.value.confidence_score <= 100
        /\ FallbackTaken => result.value.confidence_score = 60

\* C17: in every call the Rule Evaluator has run before the advisory model
\* call begins, so its result exists when the advisory attempt fails.
C17_RuleEvalBeforeAdvisory ==
    \A i \in DOMAIN path :
        path[i] = "ADVISORY_ATTEMPT" =>
            \E j \in 1..(i - 1) : path[j] \in {"RULE_EVAL", "FALLBACK"}

\* C18: a text with a "{" before a "}" whose slice is not valid JSON gives
\* the degraded default (attention, 0.5, no alerts, no assessments), as a
\* text without braces does.
C18_MalformedJsonDegraded ==
    (response.status = "text" /\ MalformedJson(response.text)) =>
        /\ pc = "done"
        /\ IsDegradedDefault(result)

\* the level the alert of an entry is to carry
ExpectedLevel(alert_data) ==
    IF alert_data.level \in AlertLevel THEN alert_data.level ELSE "warning"

\* the parsed object with every invalid or absent alert level made "warning"
WithValidLevels(ai_data) ==
    LET entries == ai_data["alerts"].alist
    IN  [ai_data EXCEPT !["alerts"] =
            JAlerts([i \in DOMAIN entries |->
                [entries[i] EXCEPT !.level = ExpectedLevel(entries[i])]])]

\* the text parses to an object listing alerts, and nothing but the level
\* of an alert can make the Reconciler raise on it
ListsAlerts(text) ==
    LET ai_data == ExtractData(text)
    IN  /\ ~ai_data.raised
        /\ "alerts" \in DOMAIN ai_data.value
        /\ ai_data.value["alerts"].kind = "alerts"
        /\ ai_data.value["alerts"].alist # <<>>
        /\ ~BuildResponse(WithValidLevels(ai_data.value), text).raised

\* C19: the Reconciler returns one alert per entry of the alerts list, in
\* order, with the entry's level when it is an AlertLevel and warning when
\* it is absent or invalid, and with the placeholder title and message when
\* those are absent; an invalid level does not abort the reconciliation.
C19_OneAlertPerEntry ==
    (response.status = "text" /\ ListsAlerts(response.text)) =>
        LET entries == ExtractData(response.text).value["alerts"].alist
            alerts == result.value.alerts_generated
        IN  /\ pc = "done"
            /\ ~FallbackTaken
            /\ Len(alerts) = Len(entries)
            /\ \A i \in DOMAIN entries :
                /\ alerts[i].level = ExpectedLevel(entries[i])
                /\ alerts[i].title = GetField(entries[i].title, "Alerta IA")
                /\ alerts[i].message.text =
                       GetField(entries[i].message, "Anomalia detectada")

\* the call returned what the Reconciler built from the advisory text
Reconciled == pc = "done" /\ response.status = "text" /\ ~FallbackTaken

\* C20 as stated: the ai_analysis of every alert built from the advisory
\* text is at most 500 characters long, and as long as the text when the
\* text has at most 500 characters.
C20_AtMost500 ==
    Reconciled =>
        \A i \in DOMAIN result.value.alerts_generated :
            LET a == result.value.alerts_generated[i].ai_analysis
                L == TextLen(response.text)
            IN  /\ a.some
                /\ a.len <= 500
                /\ L <= 500 => a.len = L

\* C20: the ai_analysis of every alert built from the advisory text is the
\* whole text when the text has at most 500 characters, and otherwise its
\* first 500 characters followed by "...", 503 characters in all.
C20_TruncatedWithEllipsis ==
    Reconciled =>
        \A i \in DOMAIN result.value.alerts_generated :
            LET a == result.value.alerts_generated[i].ai_analysis
                L == TextLen(response.text)
            IN  /\ a.some
                /\ L <= 500 => (a.len = L /\ ~a.ellipsis)
                /\ L > 500 => (a.len = 503 /\ a.ellipsis)

C20_Witness ==
    /\ Reconciled
    /\ TextLen(response.text) = 501
    /\ Len(result.value.alerts_generated) = 1
    /\ result.value.alerts_generated[1].ai_analysis.len = 503

----------------------------------------------------------------------------
(* Two calls of analyze_vital_signs on the global analyzer, the one of
   simulation_loop and the one of run_ai_analysis, each suspended at its
   model call while the other runs *)

ConcReadings ==
    {<<>>,
     <<Reading("heart_rate", Num(7200))>>,
     <<Reading("heart_rate", Num(15000))>>,
     <<Reading("posture", NoneVal)>>,
     <<Reading("heart_rate", NoneVal)>>,
     Scenario}

ConcTexts ==
    {<<Junk(12)>>,
     <<Brace("{"), Junk(3), Brace("}")>>,
     <<Brace("{"), Member("health_status", JStr("normal")), Brace("}")>>,
     <<Brace("{"), Member("confidence_score", JNum(85)),
       Member("health_status", JStr("critical")),
       Member("alerts", JAlerts(<<HeartAlert>>)), Brace("}")>>}

\* GEMINI_API_KEY is read once, when the module is loaded
InitConc ==
    /\ OthersIdle
    /\ NotCalled
    /\ configured \in BOOLEAN

\* a call has had its model call fail for want of a configured client
UnavailableFound ==
    ~configured /\ \E d \in Callers : calls[d].response.status = "raised"

\* the readings a call reads after its suspension: those of another call
\* that has started, as if kept in an attribute of the analyzer
ReadingsOf_shared(frames, c) ==
    IF \E d \in Callers \ {c} : frames[d].pc # "idle"
    THEN frames[CHOOSE d \in Callers \ {c} : frames[d].pc # "idle"].vital_signs
    ELSE frames[c].vital_signs

\* the readings a call reads after its suspension: its own parameter
ReadingsOf(frames, c) == frames[c].vital_signs

\* the end of a call with outcome out
Ending(out) == IF out.raised THEN "raised" ELSE "done"

\* lines 31-39 of one call, up to its suspension
CStart(c, vs, profile) ==
    /\ calls[c].pc = "idle"
    /\ LET analysis_data == _prepare_analysis_data(vs, profile)
           raises == \/ analysis_data.raised
                     \/ _generate_analysis_prompt(analysis_data.value).raised
           out == _generate_fallback_analysis(thresholds, vs)
           frame == [IdleFrame EXCEPT !.vital_signs = vs,
                                      !.patient_profile = profile,
                                      !.late = UnavailableFound,
                                      !.concurrent =
                                          \E d \in Callers :
                                              calls[d].pc = "awaiting"]
       IN  IF raises
           THEN /\ calls' = [calls EXCEPT ![c] =
                                [frame EXCEPT !.pc = Ending(out),
                                              !.result = out]]
                /\ error_log' = Append(error_log, "analysis")
                /\ UNCHANGED invocations
           ELSE /\ calls' = [calls EXCEPT ![c] =
                                [frame EXCEPT !.pc = "awaiting",
                                              !.invoked = TRUE]]
                /\ invocations' = invocations + 1
                /\ UNCHANGED error_log
    /\ UNCHANGED <<thresholds, configured, call_vars, unit_vars,
                   other_vars>>

\* the model call of one call returned text: lines 179, 42-44
CModelReturns(c, text) ==
    /\ configured
    /\ calls[c].pc = "awaiting"
    /\ LET vs == ReadingsOf(calls, c)
           analysis_result == _process_gemini_response(thresholds, text, vs)
           out == IF analysis_result.raised
                  THEN _generate_fallback_analysis(thresholds, vs)
                  ELSE analysis_result
       IN  /\ calls' = [calls EXCEPT
                           ![c].pc = Ending(out),
                           ![c].response = [status |-> "text", text |-> text],
                           ![c].result = out]
           /\ error_log' =
                  error_log
                  \o (IF ReconcileRaises(text) THEN <<"reconcile">> ELSE <<>>)
                  \o (IF analysis_result.raised THEN <<"analysis">> ELSE <<>>)
    /\ UNCHANGED <<thresholds, configured, invocations, call_vars, unit_vars,
                   other_vars>>

\* the model call of one call raised, as it does whenever no key is
\* configured: lines 180-182 and 46-48, each logging one error
CModelRaises(c) ==
    /\ calls[c].pc = "awaiting"
    /\ LET out == _generate_fallback_analysis(thresholds, ReadingsOf(calls, c))
       IN  calls' = [calls EXCEPT
                        ![c].pc = Ending(out),
                        ![c].response = [status |-> "raised", text |-> <<>>],
                        ![c].result = out]
    /\ error_log' = error_log \o <<"gemini", "analysis">>
    /\ UNCHANGED <<thresholds, configured, invocations, call_vars, unit_vars,
                   other_vars>>

NextConc ==
    \/ \E c \in Callers, vs \in ConcReadings, profile \in PatientProfiles :
           CStart(c, vs, profile)
    \/ \E c \in Callers, text \in ConcTexts : CModelReturns(c, text)
    \/ \E c \in Callers : CModelRaises(c)

SpecConc == InitConc /\ [][NextConc]_vars

----------------------------------------------------------------------------
(* server.py: the simulation flag, the task handle and the loop tasks *)

\* the task can still run statements of simulation_loop
Live(task) == task.state \in {"scheduled", "suspended"}

\* Task.cancel(): a task that is done is left as it is
cancel(task) ==
    IF Live(task)
    THEN [task EXCEPT !.state = "cancelling", !.cancelled_at = task.written]
    ELSE task

\* the except clause of line 177 catching CancelledError: the task logs,
\* sleeps and goes on with the loop
OnCancelledError_caught(task) == [task EXCEPT !.state = "suspended"]

\* CancelledError is thrown into the task at its await; it is no Exception,
\* so the except clause of line 177 lets it through and the task ends
OnCancelledError(task) == [task EXCEPT !.state = "cancelled"]

\* asyncio.create_task(simulation_loop()): the next task, not started yet
Created(t) ==
    /\ tasks[t].state = "absent"
    /\ \A u \in 1..(t - 1) : tasks[u].state # "absent"

\* get_firestore_db(): the cached client, or a new one when ok
Firestore(ok) == IF db = "client" \/ ok THEN "client" ELSE "none"

\* startup_event, lines 633-654
Startup(ok) ==
    /\ server = "loading"
    /\ server' = "serving"
    /\ db' = Firestore(ok)
    /\ simulation_active' = TRUE
    /\ simulation_task' = 1
    /\ tasks' = [tasks EXCEPT ![1].state = "scheduled"]
    /\ event' = "startup"
    /\ UNCHANGED <<reported, thresholds, call_vars, unit_vars, conc_vars,
                   store_vars>>

\* POST /simulation/start, lines 181-192
StartSimulation ==
    /\ server = "serving"
    /\ event' = "start"
    /\ IF simulation_active
       THEN UNCHANGED <<simulation_active, simulation_task, tasks>>
       ELSE \E t \in TaskIds :
               /\ Created(t)
               /\ simulation_active' = TRUE
               /\ simulation_task' = t
               /\ tasks' = [tasks EXCEPT ![t].state = "scheduled"]
    /\ UNCHANGED <<server, db, reported, thresholds, call_vars, unit_vars,
                   conc_vars, store_vars>>

\* POST /simulation/stop, lines 194-204
StopSimulation ==
    /\ server = "serving"
    /\ event' = "stop"
    /\ simulation_active' = FALSE
    /\ simulation_task' = None
    /\ tasks' = IF simulation_task # None
                THEN [tasks EXCEPT ![simulation_task] = cancel(@)]
                ELSE tasks
    /\ UNCHANGED <<server, db, reported, thresholds, call_vars, unit_vars,
                   conc_vars, store_vars>>

\* shutdown_event, lines 656-666: the handle is not cleared
Shutdown ==
    /\ server = "serving"
    /\ server' = "closed"
    /\ event' = "shutdown"
    /\ simulation_active' = FALSE
    /\ tasks' = IF simulation_task # None
                THEN [tasks EXCEPT ![simulation_task] = cancel(@)]
                ELSE tasks
    /\ UNCHANGED <<simulation_task, db, reported, thresholds, call_vars,
                   unit_vars, conc_vars, store_vars>>

\* GET /health, lines 61-78: 503 when Firestore raises
HealthCheck(ok) ==
    /\ server = "serving"
    /\ event' = "health"
    /\ db' = Firestore(ok)
    /\ reported' = IF ~ok THEN "503"
                   ELSE IF simulation_active THEN "active" ELSE "inactive"
    /\ UNCHANGED <<server, simulation_active, simulation_task, tasks,
                   thresholds, call_vars, unit_vars, conc_vars, store_vars>>

\* a task runs from its start or its last await to its next await:
\* get_firestore_db() once (line 142), the test of the loop (line 146) and
\* one batch of readings (lines 149-155) before it sleeps
TaskRuns(t, ok) ==
    /\ Live(tasks[t])
    /\ event' = "task"
    /\ IF tasks[t].state = "scheduled" /\ Firestore(ok) = "none"
       THEN /\ tasks' = [tasks EXCEPT ![t].state = "failed"]
            /\ UNCHANGED db
       ELSE /\ db' = IF tasks[t].state = "scheduled" THEN Firestore(ok) ELSE db
            /\ IF ~simulation_active
               THEN tasks' = [tasks EXCEPT ![t].state = "returned"]
               ELSE /\ tasks[t].written < MaxBatches
                    /\ tasks' = [tasks EXCEPT
                                    ![t].state = "suspended",
                                    ![t].written = @ + (IF ok THEN 1 ELSE 0)]
    /\ UNCHANGED <<server, simulation_active, simulation_task, reported,
                   thresholds, call_vars, unit_vars, conc_vars, store_vars>>

\* a task whose cancellation was requested is resumed with CancelledError
TaskCancelled(t) ==
    /\ tasks[t].state = "cancelling"
    /\ event' = "task"
    /\ tasks' = [tasks EXCEPT ![t] = OnCancelledError(@)]
    /\ UNCHANGED <<server, simulation_active, simulation_task, db, reported,
                   thresholds, call_vars, unit_vars, conc_vars, store_vars>>

NextServer ==
    \/ \E ok \in BOOLEAN : Startup(ok)
    \/ StartSimulation
    \/ StopSimulation
    \/ Shutdown
    \/ \E ok \in BOOLEAN : HealthCheck(ok)
    \/ \E t \in TaskIds, ok \in BOOLEAN : TaskRuns(t, ok)
    \/ \E t \in TaskIds : TaskCancelled(t)

SpecServer == Init /\ [][NextServer]_vars

----------------------------------------------------------------------------
(* mongodb_fallback.py: calls of save_profile, each suspended at its awaits *)

ProfileData == {"a", "b"}

\* lines 88-89 and 91: the call starts and awaits initialize() or find_one()
SaveBegins(s, data) ==
    /\ savers[s].pc = "idle"
    /\ savers[s].saves < MaxSaves
    /\ savers' = [savers EXCEPT
                     ![s].pc = IF initialized THEN "finding" ELSE "pinging",
                     ![s].profile_data = data,
                     ![s].existing = None]
    /\ UNCHANGED <<initialized, patient_profiles, thresholds, call_vars,
                   unit_vars, conc_vars, server_vars>>

\* lines 27-34: the ping returns, or raises and save_profile raises with it
PingReturns(s, ok) ==
    /\ savers[s].pc = "pinging"
    /\ initialized' = (initialized \/ ok)
    /\ savers' = [savers EXCEPT ![s].pc = IF ok THEN "finding" ELSE "idle",
                                ![s].saves = @ + (IF ok THEN 0 ELSE 1)]
    /\ UNCHANGED <<patient_profiles, thresholds, call_vars, unit_vars,
                   conc_vars, server_vars>>

\* line 94: find_one() answers with a document of the collection, or None
FindReturns(s) ==
    /\ savers[s].pc = "finding"
    /\ savers' = [savers EXCEPT
                     ![s].pc = "writing",
                     ![s].existing = IF patient_profiles = <<>> THEN None
                                     ELSE patient_profiles[1].id]
    /\ UNCHANGED <<initialized, patient_profiles, thresholds, call_vars,
                   unit_vars, conc_vars, server_vars>>

\* lines 95-104: update_one on the document found, or insert_one
WriteReturns(s) ==
    /\ savers[s].pc = "writing"
    /\ patient_profiles' =
           IF savers[s].existing # None
           THEN [i \in DOMAIN patient_profiles |->
                    IF patient_profiles[i].id = savers[s].existing
                    THEN [patient_profiles[i] EXCEPT
                             !.data = savers[s].profile_data]
                    ELSE patient_profiles[i]]
           ELSE Append(patient_profiles,
                       [id |-> Len(patient_profiles) + 1,
                        data |-> savers[s].profile_data])
    /\ savers' = [savers EXCEPT ![s].pc = "idle", ![s].saves = @ + 1]
    /\ UNCHANGED <<initialized, thresholds, call_vars, unit_vars, conc_vars,
                   server_vars>>

NextStore ==
    \/ \E s \in Savers, data \in ProfileData : SaveBegins(s, data)
    \/ \E s \in Savers, ok \in BOOLEAN : PingReturns(s, ok)
    \/ \E s \in Savers : FindReturns(s)
    \/ \E s \in Savers : WriteReturns(s)

SpecStore == Init /\ [][NextStore]_vars

----------------------------------------------------------------------------
(* Properties of the direct calls *)

Window(values) ==
    SubSeq(values, IF Len(values) >= 3 THEN Len(values) - 2 ELSE 1,
           Len(values))

\* the trend the law gives a series
TrendLaw(values) ==
    LET w == Window(values)
    IN  IF Len(values) < 2 THEN "stable"
        ELSE IF Abs(w[Len(w)] - w[1]) < 10 THEN "stable"
        ELSE IF w[Len(w)] - w[1] > 0 THEN "increasing"
        ELSE "decreasing"

\* _calculate_trend was called on the series and returned the trend
TrendOf(values, trend) ==
    (unit_pc = "trend" /\ unit_input = values) => unit_first = trend

\* C13: _calculate_trend returns stable for fewer than 2 values or when the
\* last value of the window differs from its first by less than 0.1,
\* increasing when it is larger and decreasing when it is smaller; the
\* window is the last 3 values, so older values never change the result;
\* [70,72,75] is increasing, [75,72,70] decreasing, [70] and [] stable.
C13_TrendLaw ==
    /\ unit_pc = "trend" =>
        /\ unit_first = TrendLaw(unit_input)
        /\ Len(unit_input) >= 3 =>
            \A older \in SeqsUpTo(TrendValues, 2) :
                _calculate_trend(older \o Window(unit_input)) = unit_first
    /\ TrendOf(<<7000, 7200, 7500>>, "increasing")
    /\ TrendOf(<<7500, 7200, 7000>>, "decreasing")
    /\ TrendOf(<<7000>>, "stable")
    /\ TrendOf(<<>>, "stable")

C13_Witness ==
    /\ unit_pc = "trend"
    /\ unit_input = <<7500, 7000, 7200, 7500>>
    /\ unit_first = "increasing"

KeyIndexes(vs, key) == {i \in DOMAIN vs : GroupKey(vs[i]) = key}
ValuedIndexes(vs, key) ==
    {i \in KeyIndexes(vs, key) : vs[i].value.kind # "missing"}

RECURSIVE SumAt(_, _)
SumAt(vs, I) ==
    IF I = {} THEN 0
    ELSE LET i == CHOOSE i \in I : TRUE
         IN  vs[i].value.n + SumAt(vs, I \ {i})

----------------------------------------------------------------------------
(* Properties of the concurrent calls *)

\* what analyze_vital_signs returns when it runs alone on the readings and
\* the profile and its model call ends as the response says
Solo(th, vs, profile, resp) ==
    LET analysis_data == _prepare_analysis_data(vs, profile)
        raises == \/ analysis_data.raised
                  \/ _generate_analysis_prompt(analysis_data.value).raised
        fallback == _generate_fallback_analysis(th, vs)
    IN  IF raises \/ resp.status = "raised" THEN fallback
        ELSE LET analysis_result == _process_gemini_response(th, resp.text, vs)
             IN  IF analysis_result.raised THEN fallback ELSE analysis_result

\* a call run alone ends with the result Solo gives
SoloAlone ==
    Ended => result = Solo(ThresholdTable, vital_signs, patient_profile, response)

CEnded(c) == calls[c].pc \in {"done", "raised"}

\* every call that has ended has the result it has when run alone
SameAsAlone ==
    \A c \in Callers :
        CEnded(c) =>
            calls[c].result =
                Solo(ThresholdTable, calls[c].vital_signs,
                     calls[c].patient_profile, calls[c].response)

\* a step of one call leaves the frame of the other call and the
\* Threshold Table as they were
OwnFrameOnly ==
    \A c \in Callers :
        calls'[c] # calls[c] =>
            /\ \A d \in Callers \ {c} : calls'[d] = calls[d]
            /\ thresholds' = thresholds

\* C12: in every interleaving of two calls of analyze_vital_signs on the
\* global analyzer each call ends with the result it has when run alone on
\* its own readings, profile and model outcome; no step of a call writes
\* the frame of the other, and the Threshold Table is never written.
C12_Independent ==
    /\ [](SameAsAlone /\ thresholds = ThresholdTable)
    /\ [][OwnFrameOnly]_vars

C12_Witness ==
    /\ calls[2].concurrent
    /\ calls[1].pc = "done"
    /\ calls[2].pc = "done"
    /\ calls[1].vital_signs = Scenario
    /\ calls[2].vital_signs = <<Reading("heart_rate", Num(7200))>>
    /\ calls[1].response.status = "raised"
    /\ calls[2].response.status = "text"
    /\ Len(calls[1].result.value.alerts_generated) = 1
    /\ calls[2].result.value.health_status = "critical"

\* C16: once a call has found the model client not configured, no later
\* call invokes the model, and the condition is logged once.
C16_StickyUnavailable ==
    /\ \A c \in Callers : calls[c].late => ~calls[c].invoked
    /\ ~configured =>
        Cardinality({i \in DOMAIN error_log : error_log[i] = "gemini"}) <= 1

----------------------------------------------------------------------------
(* Properties of the Reconciler's defaults and of its except clause *)

\* the value the object has for a key, or the default of the key
Taken(ai_data, key, default) ==
    IF key \in DOMAIN ai_data THEN ai_data[key] ELSE default

\* every field of the result is the object's, or its default when absent
FieldsFrom(ai_data, r) ==
    /\ r.analysis_summary =
           Taken(ai_data, "analysis_summary", JStr("Analise realizada")).sval
    /\ r.health_status = Taken(ai_data, "health_status", JStr("normal")).sval
    /\ r.individual_assessments =
           AssessmentsOf(Taken(ai_data, "individual_assessments",
                               JDict(<<>>)).dict)
    /\ r.combined_assessment =
           Taken(ai_data, "combined_assessment",
                 JStr("Sinais vitais analisados")).sval
    /\ r.recommendations = Taken(ai_data, "recommendations", JStrList(<<>>)).slist
    /\ r.confidence_score = Taken(ai_data, "confidence_score", JNum(70)).nval
    /\ Len(r.alerts_generated) = Len(Taken(ai_data, "alerts", JAlerts(<<>>)).alist)

\* C21: when the Reconciler builds the assessment from a JSON object held
\* by the advisory text, every field of the result is the object's field, or
\* its default when the object lacks it: no assessments, no
\* recommendations, health_status "normal", confidence 0.7 and the
\* placeholder summary and combined assessment; {} gives normal, 0.7 and
\* no alerts.
C21_DefaultsForAbsentFields ==
    /\ (Reconciled /\ HoldsObject(response.text)) =>
        FieldsFrom(ExtractData(response.text).value, result.value)
    /\ (response.status = "text"
        /\ response.text = <<Brace("{"), Brace("}")>>) =>
        /\ Reconciled
        /\ result.value.health_status = "normal"
        /\ result.value.confidence_score = 70
        /\ result.value.alerts_generated = <<>>
        /\ result.value.individual_assessments = <<>>
        /\ result.value.recommendations = <<>>

C21_Witness ==
    /\ Reconciled
    /\ response.text = <<Brace("{"), Brace("}")>>
    /\ vital_signs = Scenario
    /\ result.value.health_status = "normal"
    /\ result.value.confidence_score = 70

\* the text whose only alert names a sensor type outside SensorType
GlucoseText ==
    <<Brace("{"), Member("health_status", JStr("critical")),
      Member("alerts", JAlerts(<<AlertData("warning", "T", "M", "glucose")>>)),
      Brace("}")>>

----------------------------------------------------------------------------
(* Properties of the Rule Evaluator called directly *)

\* _generate_fallback_analysis was called and returned
Evaluator == unit_pc \in {"fallback_once", "fallback_twice"} /\ ~unit_first.out.raised

\* the readings the law evaluates: the last 10 of the list, or all of fewer
Last10(vs) ==
    [i \in 1..(IF Len(vs) < 10 THEN Len(vs) ELSE 10) |->
        vs[i + (IF Len(vs) < 10 THEN 0 ELSE Len(vs) - 10)]]

\* the value the law evaluates a reading with
ValueRead(reading) ==
    IF reading.value.kind = "num" THEN reading.value.n ELSE 0

Within(band, n) == band[1] <= n /\ n <= band[2]

\* the places among the last 10 of the readings with a Threshold Table entry
Classified(vs) ==
    {i \in DOMAIN Last10(vs) : Last10(vs)[i].sensor_type \in DOMAIN ThresholdTable}

\* and of those whose value is outside the normal band
OutOfBand(vs) ==
    {i \in Classified(vs) :
        ~Within(ThresholdTable[Last10(vs)[i].sensor_type].normal,
                ValueRead(Last10(vs)[i]))}

\* C23: the Rule Evaluator returns one alert per out-of-band reading among
\* the last 10 with a Threshold Table entry, in arrival order, with that
\* reading's sensor type and its value as trigger_value, and none for an
\* in-band reading; every alert is a warning or critical.
C23_OneAlertPerOutOfBand ==
    Evaluator =>
        LET alerts == unit_first.out.value.alerts_generated
            rs == Last10(unit_input)
            I == OutOfBand(unit_input)
        IN  /\ Len(alerts) = Cardinality(I)
            /\ \A i \in I :
                LET a == alerts[Cardinality({j \in I : j <= i})]
                IN  /\ a.sensor_type = rs[i].sensor_type
                    /\ a.trigger_value = Num(ValueRead(rs[i]))
                    /\ a.level \in {"warning", "critical"}

C23_Witness ==
    /\ Evaluator
    /\ unit_input = <<Reading("heart_rate", Num(11000)),
                      Reading("heart_rate", Num(15000))>>
    /\ Len(unit_first.out.value.alerts_generated) = 2
    /\ unit_first.out.value.alerts_generated[1].trigger_value = Num(11000)
    /\ unit_first.out.value.alerts_generated[2].level = "critical"

\* lists ending with the same last 10 readings as a list of 10 or more
SameLast10(vs) ==
    {older \o Last10(vs) :
        older \in {<<>>, Alarming(1), <<Reading("temperature", Num(3900))>>,
                   Alarming(2)}}

\* C24: the Rule Evaluator's result is that of the last 10 readings of the
\* list: it holds at most 10 alerts, and a list of 10 or more readings gives
\* the same alerts, assessments and health_status whatever precedes its
\* last 10.
C24_LastTenOnly ==
    Evaluator =>
        /\ unit_first.out = _generate_fallback_analysis(thresholds, Last10(unit_input))
        /\ Len(unit_first.out.value.alerts_generated) <= 10
        /\ Len(unit_input) >= 10 =>
            \A vs \in SameLast10(unit_input) :
                _generate_fallback_analysis(thresholds, vs) = unit_first.out

C24_Witness ==
    /\ Evaluator
    /\ unit_input = <<Reading("temperature", Num(3900))>> \o Alarming(10)
    /\ Len(unit_first.out.value.alerts_generated) = 10
    /\ DOMAIN unit_first.out.value.individual_assessments = {"heart_rate"}

\* C25: individual_assessments has one entry per sensor type with a
\* Threshold Table entry among the last 10 readings, whether or not an
\* alert was raised; it holds the value of the last reading of that type
\* and is Normal iff that value is within the normal band; a reading of
\* another type adds neither an assessment nor an alert.
C25_AssessmentLastWins ==
    Evaluator =>
        LET r == unit_first.out.value
            rs == Last10(unit_input)
            C == Classified(unit_input)
        IN  /\ DOMAIN r.individual_assessments = {rs[i].sensor_type : i \in C}
            /\ \A i \in C :
                (\A j \in C : rs[j].sensor_type = rs[i].sensor_type => j <= i)
                => LET a == r.individual_assessments[rs[i].sensor_type]
                   IN  /\ a.value = Num(ValueRead(rs[i]))
                       /\ a.text = "Normal" <=>
                              Within(ThresholdTable[rs[i].sensor_type].normal,
                                     ValueRead(rs[i]))
                       /\ a.text \in {"Normal", "Atencao"}
            /\ \A k \in DOMAIN r.alerts_generated :
                r.alerts_generated[k].sensor_type \in {rs[i].sensor_type : i \in C}

C25_Witness ==
    /\ Evaluator
    /\ unit_input = <<Reading("heart_rate", Num(15000)),
                      Reading("heart_rate", Num(7200))>>
    /\ Len(unit_first.out.value.alerts_generated) = 1
    /\ unit_first.out.value.individual_assessments["heart_rate"].text = "Normal"

\* C26: a reading among the last 10 that has a configured sensor type and
\* no value is evaluated with the value 0: the Rule Evaluator returns, with
\* a critical alert of trigger_value 0 for it and health_status
\* "attention", for each of the five sensor types; the Aggregator gives
\* the same reading no statistics.
C26_MissingValueIsZero ==
    /\ (/\ unit_pc \in {"fallback_once", "fallback_twice"}
        /\ \A i \in DOMAIN unit_input : unit_input[i].value.kind # "null") =>
        /\ Evaluator
        /\ \A i \in Classified(unit_input) :
            Last10(unit_input)[i].value.kind = "missing" =>
                /\ unit_first.out.value.health_status = "attention"
                /\ \E k \in DOMAIN unit_first.out.value.alerts_generated :
                    LET a == unit_first.out.value.alerts_generated[k]
                    IN  /\ a.sensor_type = Last10(unit_input)[i].sensor_type
                        /\ a.trigger_value = Num(0)
                        /\ a.level = "critical"
    /\ \A s \in DOMAIN ThresholdTable :
        (/\ unit_pc \in {"prepare_once", "prepare_twice"}
         /\ unit_input = <<Reading(s, MissingVal)>>) =>
            /\ ~unit_first.raised
            /\ unit_first.value.statistics = <<>>
            /\ Len(unit_first.value.grouped_data[s]) = 1

C26_Witness ==
    /\ Evaluator
    /\ unit_input = <<Reading("oxygen_saturation", MissingVal)>>
    /\ Len(unit_first.out.value.alerts_generated) = 1
    /\ unit_first.out.value.alerts_generated[1].level = "critical"
    /\ unit_first.out.value.alerts_generated[1].trigger_value = Num(0)
    /\ unit_first.out.value.health_status = "attention"

\* Threshold Tables that differ from the configured one in critical bands only
CriticalVariants ==
    {[s \in DOMAIN ThresholdTable |->
        IF s \in S THEN [ThresholdTable[s] EXCEPT !.critical = band]
        ELSE ThresholdTable[s]] :
        S \in SUBSET {"heart_rate", "oxygen_saturation", "temperature"},
        band \in {<<0, 0>>, <<0, 1000000>>}}

\* C27: Threshold Tables that differ only in their critical bands give the
\* same result on the same readings; an oxygen_saturation value outside
\* 90..94 and outside 95..100, above 100 too, raises a critical alert.
C27_CriticalBandUnread ==
    Evaluator =>
        /\ \A th \in CriticalVariants :
            _generate_fallback_analysis(th, unit_input) = unit_first.out
        /\ \A i \in Classified(unit_input) :
            LET reading == Last10(unit_input)[i]
                n == ValueRead(reading)
            IN  (/\ reading.sensor_type = "oxygen_saturation"
                 /\ ~Within(<<9000, 9400>>, n)
                 /\ ~Within(<<9500, 10000>>, n)) =>
                    \E k \in DOMAIN unit_first.out.value.alerts_generated :
                        LET a == unit_first.out.value.alerts_generated[k]
                        IN  /\ a.sensor_type = "oxygen_saturation"
                            /\ a.trigger_value = Num(n)
                            /\ a.level = "critical"

C27_Witness ==
    /\ Evaluator
    /\ unit_input = <<Reading("oxygen_saturation", Num(10001))>>
    /\ unit_first.out.value.alerts_generated[1].level = "critical"
    /\ unit_first.out =
           _generate_fallback_analysis(
               [ThresholdTable EXCEPT !["oxygen_saturation"].critical = <<0, 0>>],
               unit_input)

----------------------------------------------------------------------------
(* Properties of the simulation *)

LiveTasks == {t \in TaskIds : Live(tasks[t])}

\* C28: simulation_active is true, and /health reports the simulation
\* active, only while a simulation_loop task is live, also after a task
\* has ended on its own.
C28_ActiveMeansLiveTask ==
    simulation_active => LiveTasks # {}

\* a start while the flag is set makes no task and keeps the handle; a stop
\* clears the flag and the handle and leaves the task of the handle not live
EndpointEffects ==
    /\ (event' = "start" /\ simulation_active) =>
        (tasks' = tasks /\ simulation_task' = simulation_task)
    /\ event' = "stop" =>
        /\ ~simulation_active'
        /\ simulation_task' = None
        /\ simulation_task # None => ~Live(tasks'[simulation_task])
        /\ \A t \in TaskIds \ {simulation_task} : tasks'[t] = tasks[t]

\* C29: at most one simulation_loop task is live after any startup, starts,
\* stops and shutdown; a start while simulation_active is true makes no
\* task and keeps simulation_task, a stop cancels the task of the handle
\* and clears it, and a cancelled task writes no further batch.
C29_AtMostOneLoop ==
    /\ [](/\ Cardinality(LiveTasks) <= 1
          /\ \A t \in TaskIds :
              tasks[t].state \in {"cancelling", "cancelled"} =>
                  tasks[t].written = tasks[t].cancelled_at)
    /\ [][EndpointEffects]_vars

C29_Witness ==
    /\ tasks[1].state = "cancelled"
    /\ tasks[1].written = 1
    /\ tasks[2].state = "suspended"
    /\ tasks[2].written = 2
    /\ simulation_task = 2
    /\ simulation_active

----------------------------------------------------------------------------
(* Properties of the profile store *)

\* C30: after any save_profile calls, interleaved at their awaits or not,
\* the patient_profiles collection holds at most one document.
C30_ProfileUnique == Len(patient_profiles) <= 1

====
